---- MODULE Spec2Model ----
(***************************************************************************)
(* NASA APOD data pipeline: the Airflow DAG nasa_apod_pipeline (six tasks  *)
(* in a linear chain, one retry each) and the ETL functions of apod_etl    *)
(* (extract, transform, load_to_postgres, load_to_csv), with the           *)
(* PostgreSQL table, the CSV file, the XCom store, the DVC metadata file,  *)
(* the /tmp marker file and the Git history as state.                      *)
(*                                                                         *)
(* Values are strings.  Python's None and pandas' NaN are the two strings  *)
(* None and NaN below, which no API field takes.                           *)
(***************************************************************************)
EXTENDS Integers, Sequences, FiniteSets, TLC

VARIABLES
    run,        \* number of the DAG run (0: none started yet)
    runState,   \* "none" | "running" | "success" | "failed"
    taskState,  \* task id -> "none" | "up_for_retry" | "success" | "failed" | "upstream_failed"
    tries,      \* task id -> number of tries started in this run
    err,        \* task id -> class of the exception of its last try ("" if none)
    xcom,       \* XComs of the current DAG run: <<task id, key>> -> value pushed
    pulled,     \* the xcom_pull calls of this run: [by, key, from, run]
    table,      \* rows of the PostgreSQL table apod_data
    seq,        \* last value of the table's id sequence
    csvExists,  \* os.path.exists(data/apod_data.csv)
    csv,        \* the data lines of the CSV file, in file order
    appended,   \* date -> the row load_to_csv was last given for that date
    dvcInit,    \* the directory .dvc exists
    dvcMeta,    \* [exists, hash]: the file <csv>.dvc and the content it addresses
    marker,     \* /tmp/dvc_metadata_path.txt: [content, by, run] (content "" if absent)
    gitRepo,    \* the directory /opt/airflow/.git exists
    head,       \* [exists, hash]: the metadata file as of the last commit
    commits,    \* number of commits made
    shell,      \* what the last bash task of this run saw and returned
    clock       \* wall clock, ticks at each datetime.now()

vars == <<run, runState, taskState, tries, err, xcom, pulled, table, seq,
          csvExists, csv, appended, dvcInit, dvcMeta, marker, gitRepo, head, commits,
          shell, clock>>

-----------------------------------------------------------------------------
(* Bounds and constants *)

MaxRuns == 2

retries == 1

None == "<None>"
NaN == "<NaN>"

Dates == {"2024-05-01", "2024-05-02"}

RequiredFields == {"date", "title", "url", "explanation", "media_type"}
OptionalFields == {"hdurl", "copyright", "service_version"}
RowFields == <<"date", "title", "url", "explanation", "media_type",
               "hdurl", "copyright", "service_version", "extracted_at">>

\* The API's JSON objects: the empty object, per date a record without the
\* optional fields, and for the first date a record with them (whose
\* copyright is the text "NA").
EmptyRecord == <<>>

PlainRecord(d) ==
    [date |-> d, title |-> "T", url |-> "u", explanation |-> "e",
     media_type |-> "image"]

FullRecord(d) ==
    [date |-> d, title |-> "V", url |-> "u", explanation |-> "e",
     media_type |-> "video", hdurl |-> "h", copyright |-> "NA",
     service_version |-> "v1"]

ValidRecords == {PlainRecord(d) : d \in Dates} \cup {FullRecord("2024-05-01")}

ApiRecords == ValidRecords \cup {EmptyRecord}

-----------------------------------------------------------------------------
(* apod_etl.py *)

\* dict.get(key, default)
Get(d, k, default) == IF k \in DOMAIN d THEN d[k] ELSE default

\* datetime.now().isoformat()
isoformat(now) == "2024-05-01T00:00:0" \o ToString(now)

optional_default_none(d, k) == Get(d, k, None)

\* raw_data.get(k, '') of the three optional fields
optional_field(d, k) == Get(d, k, "")

\* The one row of the DataFrame transform_apod_data returns.
transform_apod_data(raw_data, now) ==
    [date            |-> Get(raw_data, "date", None),
     title           |-> Get(raw_data, "title", None),
     url             |-> Get(raw_data, "url", None),
     explanation     |-> Get(raw_data, "explanation", None),
     media_type      |-> Get(raw_data, "media_type", None),
     hdurl           |-> optional_field(raw_data, "hdurl"),
     copyright       |-> optional_field(raw_data, "copyright"),
     service_version |-> optional_field(raw_data, "service_version"),
     extracted_at    |-> isoformat(now)]

\* The columns of a row that INSERT ... VALUES %s supplies, by position.
RowOf(r) == [f \in {RowFields[i] : i \in 1..Len(RowFields)} |-> r[f]]

upsert_do_nothing(t, row, id, now) ==
    IF \E old \in t : old.row.date = row.date
    THEN t
    ELSE t \cup {[id |-> id, created_at |-> now, row |-> RowOf(row)]}

\* INSERT INTO apod_data (...) VALUES %s ON CONFLICT (date) DO UPDATE SET ...:
\* the row with that date keeps id and created_at and takes the other columns.
upsert(t, row, id, now) ==
    IF \E old \in t : old.row.date = row.date
    THEN {IF old.row.date = row.date
          THEN [id |-> old.id, created_at |-> old.created_at, row |-> RowOf(row)]
          ELSE old : old \in t}
    ELSE t \cup {[id |-> id, created_at |-> now, row |-> RowOf(row)]}

\* pandas' default na_values of read_csv
NA_VALUES == {"", "#N/A", "#N/A N/A", "#NA", "-1.#IND", "-1.#QNAN", "-NaN",
              "-nan", "1.#IND", "1.#QNAN", "<NA>", "N/A", "NA", "NULL", "NaN",
              "None", "n/a", "nan", "null"}

\* DataFrame.to_csv: a missing value is written as the empty cell.
to_csv_cell(v) == IF v \in {None, NaN} THEN "" ELSE v

to_csv(rows) == [i \in 1..Len(rows) |-> [f \in DOMAIN rows[i] |-> to_csv_cell(rows[i][f])]]

\* pd.read_csv: a cell holding one of NA_VALUES is read as NaN.
read_csv_cell(c) == IF c \in NA_VALUES THEN NaN ELSE c

read_csv(lines) == [i \in 1..Len(lines) |-> [f \in DOMAIN lines[i] |-> read_csv_cell(lines[i][f])]]

drop_duplicates_first(rows) ==
    LET keep == {i \in 1..Len(rows) : \A j \in 1..(i-1) : rows[j].date # rows[i].date}
        F[n \in 0..Len(rows)] ==
            IF n = 0 THEN <<>>
            ELSE IF n \in keep THEN Append(F[n-1], rows[n]) ELSE F[n-1]
    IN F[Len(rows)]

\* drop_duplicates(subset=['date'], keep='last')
drop_duplicates(rows) ==
    LET keep == {i \in 1..Len(rows) : \A j \in (i+1)..Len(rows) : rows[j].date # rows[i].date}
        F[n \in 0..Len(rows)] ==
            IF n = 0 THEN <<>>
            ELSE IF n \in keep THEN Append(F[n-1], rows[n]) ELSE F[n-1]
    IN F[Len(rows)]

\* The data lines of the file after load_to_csv(df, filepath).
load_to_csv(exists, lines, row) ==
    IF exists
    THEN to_csv(drop_duplicates(read_csv(lines) \o <<RowOf(row)>>))
    ELSE to_csv(<<RowOf(row)>>)

-----------------------------------------------------------------------------
(* nasa_apod_pipeline.py: the DAG *)

\* task_extract >> task_transform >> task_load >> task_dvc_version_prep
\*   >> task_dvc_version >> task_git_commit
Chain == <<"step1_extract", "step2_transform", "step3_load",
           "step4_dvc_version_prep", "step4_dvc_version", "step5_git_commit">>

Tasks == {Chain[i] : i \in 1..Len(Chain)}

Position(t) == CHOOSE i \in 1..Len(Chain) : Chain[i] = t

Downstream(t) == {Chain[i] : i \in (Position(t)+1)..Len(Chain)}

\* Default trigger rule all_success: a task is queued once its upstream task
\* has succeeded, for its first try or for a retry.
Runnable(t) ==
    /\ runState = "running"
    /\ taskState[t] \in {"none", "up_for_retry"}
    /\ Position(t) > 1 => taskState[Chain[Position(t)-1]] = "success"

never_retry(n) == FALSE

\* default_args 'retries': the try numbered n, having failed, is retried
\* (after retry_delay) when n <= retries, whatever the exception.
eligible_to_retry(n) == n <= retries

\* The task instance states after try number tries[t]+1 of t ended.
AfterTry(t, ok) ==
    IF ok THEN [taskState EXCEPT ![t] = "success"]
    ELSE IF eligible_to_retry(tries[t] + 1)
         THEN [taskState EXCEPT ![t] = "up_for_retry"]
         ELSE [u \in Tasks |-> IF u = t THEN "failed"
                               ELSE IF u \in Downstream(t) THEN "upstream_failed"
                               ELSE taskState[u]]

\* The DAG run ends when its last task succeeded or a task failed for good.
RunAfter(ts) ==
    IF \E u \in Tasks : ts[u] = "failed" THEN "failed"
    ELSE IF \A u \in Tasks : ts[u] = "success" THEN "success"
    ELSE "running"

EndTry(t, ok, e) ==
    /\ taskState' = AfterTry(t, ok)
    /\ runState' = RunAfter(AfterTry(t, ok))
    /\ tries' = [tries EXCEPT ![t] = @ + 1]
    /\ err' = [err EXCEPT ![t] = e]

pull_from_extract(by, key) == "step1_extract"

\* The task_ids each xcom_pull names.
PullFrom(by, key) ==
    CASE by = "step2_transform"        -> "step1_extract"
      [] by = "step3_load"             -> "step2_transform"
      [] by = "step4_dvc_version_prep" -> "step3_load"
      [] by = "step4_dvc_version"      -> "step4_dvc_version_prep"
      [] by = "step5_git_commit"       -> "step4_dvc_version_prep"

\* ti.xcom_pull(key, task_ids): the value that task pushed in this DAG run.
XComKey(by, key) == <<PullFrom(by, key), key>>

Pulled(by, key) == [by |-> by, key |-> key, from |-> PullFrom(by, key), run |-> run]

\* Starting a try clears what the task's earlier try pushed.
ClearXCom(x, t) == [k \in {j \in DOMAIN x : j[1] # t} |-> x[k]]

Push(x, t, key, value) == (<<t, key>> :> value) @@ x

NoShell == [task |-> "", repo |-> "", marker |-> "", meta |-> "", found |-> "",
            add |-> "", commit |-> "", exit |-> 0]

StartRun ==
    /\ runState \in {"none", "success", "failed"}
    /\ run < MaxRuns
    /\ run' = run + 1
    /\ runState' = "running"
    /\ taskState' = [t \in Tasks |-> "none"]
    /\ tries' = [t \in Tasks |-> 0]
    /\ err' = [t \in Tasks |-> ""]
    /\ pulled' = {}
    /\ shell' = NoShell
    /\ xcom' = <<>>
    /\ UNCHANGED <<table, seq, csvExists, csv, appended, dvcInit, dvcMeta,
                   marker, gitRepo, head, commits, clock>>

\* step1_extract: extract_apod_data() returns the JSON object, or raises
\* RequestException (connection, timeout, HTTP status), or AttributeError
\* when the JSON body is no object.
step1_extract ==
    /\ Runnable("step1_extract")
    /\ \/ \E e \in {"RequestException", "AttributeError"} :
            /\ EndTry("step1_extract", FALSE, e)
            /\ xcom' = ClearXCom(xcom, "step1_extract")
       \/ \E r \in ApiRecords :
            /\ EndTry("step1_extract", TRUE, "")
            /\ xcom' = Push(Push(ClearXCom(xcom, "step1_extract"),
                                 "step1_extract", "raw_apod_data", r),
                            "step1_extract", "return_value", r)
    /\ UNCHANGED <<run, pulled, table, seq, csvExists, csv, appended, dvcInit, dvcMeta,
                   marker, gitRepo, head, commits, shell, clock>>

guard_absent_only(present, value) == ~present

\* `not raw_data`: nothing was pushed (None) or the dict is empty.
no_data_received(present, value) == ~present \/ DOMAIN value = {}

step2_transform ==
    LET k == XComKey("step2_transform", "raw_apod_data")
        present == k \in DOMAIN xcom
        df == <<transform_apod_data(xcom[k], clock + 1)>>
    IN
    /\ Runnable("step2_transform")
    /\ pulled' = pulled \cup {Pulled("step2_transform", "raw_apod_data")}
    /\ IF no_data_received(present, IF present THEN xcom[k] ELSE <<>>)
       THEN /\ EndTry("step2_transform", FALSE, "ValueError")
            /\ xcom' = ClearXCom(xcom, "step2_transform")
            /\ clock' = clock
       ELSE /\ EndTry("step2_transform", TRUE, "")
            /\ clock' = clock + 1
            /\ xcom' = Push(Push(ClearXCom(xcom, "step2_transform"),
                                 "step2_transform", "transformed_df", df),
                            "step2_transform", "return_value", df)
    /\ UNCHANGED <<run, table, seq, csvExists, csv, appended, dvcInit, dvcMeta, marker,
                   gitRepo, head, commits, shell>>

CsvPath == "data/apod_data.csv"

\* step3_load: load_to_postgres, then load_to_csv, then the push of csv_path.
\* The connection or the insert may raise (and a NULL date does), and then
\* the file is not touched; the file write may raise after the table commit.
step3_load ==
    LET k == XComKey("step3_load", "transformed_df")
        present == k \in DOMAIN xcom
        row == xcom[k][1]
    IN
    /\ Runnable("step3_load")
    /\ pulled' = pulled \cup {Pulled("step3_load", "transformed_df")}
    /\ IF ~present \/ (present /\ xcom[k] = <<>>)
       THEN /\ EndTry("step3_load", FALSE, "ValueError")
            /\ xcom' = ClearXCom(xcom, "step3_load")
            /\ UNCHANGED <<table, seq, csvExists, csv, appended>>
       ELSE \/ /\ EndTry("step3_load", FALSE, "psycopg2.Error")
               /\ xcom' = ClearXCom(xcom, "step3_load")
               /\ UNCHANGED <<table, seq, csvExists, csv, appended>>
            \/ /\ row.date # None
               /\ table' = upsert(table, row, seq + 1, clock)
               /\ seq' = seq + 1
               /\ \/ /\ EndTry("step3_load", FALSE, "OSError")
                     /\ xcom' = ClearXCom(xcom, "step3_load")
                     /\ UNCHANGED <<csvExists, csv, appended>>
                  \/ /\ csv' = load_to_csv(csvExists, csv, row)
                     /\ appended' = (row.date :> RowOf(row)) @@ appended
                     /\ csvExists' = TRUE
                     /\ EndTry("step3_load", TRUE, "")
                     /\ xcom' = Push(Push(ClearXCom(xcom, "step3_load"),
                                          "step3_load", "csv_path", CsvPath),
                                     "step3_load", "return_value", CsvPath)
    /\ UNCHANGED <<run, dvcInit, dvcMeta, marker, gitRepo, head, commits,
                   shell, clock>>

\* os.path.abspath relative to the worker's directory /opt/airflow
abspath(p) == "/opt/airflow/" \o p

step4_dvc_version_prep ==
    LET k == XComKey("step4_dvc_version_prep", "csv_path")
        present == k \in DOMAIN xcom
    IN
    /\ Runnable("step4_dvc_version_prep")
    /\ pulled' = pulled \cup {Pulled("step4_dvc_version_prep", "csv_path")}
    /\ IF ~present \/ (present /\ xcom[k] = "")
       THEN /\ EndTry("step4_dvc_version_prep", FALSE, "ValueError")
            /\ xcom' = ClearXCom(xcom, "step4_dvc_version_prep")
       ELSE /\ EndTry("step4_dvc_version_prep", TRUE, "")
            /\ xcom' = Push(Push(ClearXCom(xcom, "step4_dvc_version_prep"),
                                 "step4_dvc_version_prep", "abs_csv_path", abspath(xcom[k])),
                            "step4_dvc_version_prep", "return_value", abspath(xcom[k]))
    /\ UNCHANGED <<run, table, seq, csvExists, csv, appended, dvcInit, dvcMeta, marker,
                   gitRepo, head, commits, shell, clock>>

dvc_script_add_or_true(addOk, found) ==
    IF ~found THEN [exit |-> 1, marker |-> FALSE] ELSE [exit |-> 0, marker |-> TRUE]

\* The bash script of task_dvc_version after `dvc add` returned and the test
\* [ -f "$DVC_METADATA" ] was made: its exit code, and whether it wrote the
\* marker file.
dvc_script(addOk, found) ==
    IF ~addOk THEN [exit |-> 1, marker |-> FALSE]
    ELSE IF ~found THEN [exit |-> 1, marker |-> FALSE]
    ELSE [exit |-> 0, marker |-> TRUE]

Flag(b) == IF b THEN "yes" ELSE "no"

\* step4_dvc_version: `dvc init --no-scm || true` when .dvc is missing, then
\* `dvc add`, which fails, or writes <csv>.dvc, or reports success without
\* writing it; without a .dvc directory it fails.
task_dvc_version ==
    LET t == "step4_dvc_version"
        CSV_PATH == xcom[XComKey(t, "abs_csv_path")]
        DVC_METADATA == CSV_PATH \o ".dvc"
    IN
    /\ Runnable(t)
    /\ pulled' = pulled \cup {Pulled(t, "abs_csv_path")}
    /\ dvcInit' \in (IF dvcInit THEN {TRUE} ELSE BOOLEAN)
    /\ \E add \in (IF dvcInit' THEN {"fail", "ok", "ok_nometa"} ELSE {"fail"}) :
         LET addOk == add # "fail"
             meta == IF add = "ok" THEN [exists |-> TRUE, hash |-> csv] ELSE dvcMeta
             res == dvc_script(addOk, meta.exists)
         IN
         /\ dvcMeta' = meta
         /\ marker' = IF res.marker
                       THEN [content |-> DVC_METADATA, by |-> t, run |-> run]
                       ELSE marker
         /\ shell' = [NoShell EXCEPT !.task = t, !.meta = DVC_METADATA,
                                     !.add = Flag(addOk),
                                     !.found = IF addOk THEN Flag(meta.exists) ELSE "",
                                     !.exit = res.exit]
         /\ EndTry(t, res.exit = 0, IF res.exit = 0 THEN "" ELSE "AirflowException")
         /\ xcom' = IF res.exit = 0
                     THEN Push(ClearXCom(xcom, t), t, "return_value",
                               "DVC versioning complete. Metadata: " \o DVC_METADATA)
                     ELSE ClearXCom(xcom, t)
    /\ UNCHANGED <<run, table, seq, csvExists, csv, appended, gitRepo, head,
                   commits, clock>>

git_script_add_fails_task(repo, found, addOk, commitOk) ==
    IF ~repo THEN [exit |-> 0, commit |-> FALSE]
    ELSE IF ~found THEN [exit |-> 0, commit |-> FALSE]
    ELSE IF ~addOk THEN [exit |-> 1, commit |-> FALSE]
    ELSE IF ~commitOk THEN [exit |-> 0, commit |-> FALSE]
    ELSE [exit |-> 0, commit |-> TRUE]

git_script_commit_fails_task(repo, found, addOk, commitOk) ==
    IF ~repo THEN [exit |-> 0, commit |-> FALSE]
    ELSE IF ~found THEN [exit |-> 0, commit |-> FALSE]
    ELSE IF ~addOk THEN [exit |-> 0, commit |-> FALSE]
    ELSE IF ~commitOk THEN [exit |-> 1, commit |-> FALSE]
    ELSE [exit |-> 0, commit |-> TRUE]

\* The bash script of task_git_commit, given the tests [ -d .git ] and
\* [ -f "$DVC_METADATA" ] and the results of git add and git commit: its
\* exit code, and whether a commit was made.
git_script(repo, found, addOk, commitOk) ==
    IF ~repo THEN [exit |-> 0, commit |-> FALSE]
    ELSE IF ~found THEN [exit |-> 0, commit |-> FALSE]
    ELSE IF ~addOk THEN [exit |-> 0, commit |-> FALSE]
    ELSE IF ~commitOk THEN [exit |-> 0, commit |-> FALSE]
    ELSE [exit |-> 0, commit |-> TRUE]

\* step5_git_commit.  The template is rendered, abs_csv_path pulled, before
\* the script runs.  `cat /tmp/dvc_metadata_path.txt 2>/dev/null || echo ""`
\* yields the marker or, the file missing where the task runs, nothing; so
\* may the metadata file be missing there.  git commit fails when the staged
\* file equals the committed one, and may fail when git is not configured.
task_git_commit ==
    LET t == "step5_git_commit"
        CSV_PATH == xcom[XComKey(t, "abs_csv_path")]
    IN
    /\ Runnable(t)
    /\ \E read \in {marker.content, ""} :
       \E there, addOk, wanted \in BOOLEAN :
         LET DVC_METADATA == IF read = "" THEN CSV_PATH \o ".dvc" ELSE read
             found == there /\ dvcMeta.exists /\ DVC_METADATA = abspath(CsvPath) \o ".dvc"
             changed == ~head.exists \/ head.hash # dvcMeta.hash
             commitOk == wanted /\ changed
             res == git_script(gitRepo, found, addOk, commitOk)
         IN
         \* the values a branch of the script never looks at are not enumerated
         /\ ~gitRepo => (read = "" /\ ~there)
         /\ ~(gitRepo /\ found) => (~addOk /\ ~wanted)
         /\ ~addOk => ~wanted
         /\ pulled' = pulled \cup {Pulled(t, "abs_csv_path")}
                        \cup (IF gitRepo /\ read # ""
                              THEN {[by |-> t, key |-> "dvc_metadata_path",
                                     from |-> marker.by, run |-> marker.run]}
                              ELSE {})
         /\ shell' = [NoShell EXCEPT
                         !.task = t, !.repo = Flag(gitRepo),
                         !.marker = IF gitRepo THEN read ELSE "",
                         !.meta = IF gitRepo THEN DVC_METADATA ELSE "",
                         !.found = IF gitRepo THEN Flag(found) ELSE "",
                         !.add = IF gitRepo /\ found THEN Flag(addOk) ELSE "",
                         !.commit = IF gitRepo /\ found /\ addOk THEN Flag(commitOk) ELSE "",
                         !.exit = res.exit]
         /\ commits' = IF res.commit THEN commits + 1 ELSE commits
         /\ head' = IF res.commit THEN dvcMeta ELSE head
         /\ EndTry(t, res.exit = 0, IF res.exit = 0 THEN "" ELSE "AirflowException")
         /\ xcom' = IF res.exit = 0
                     THEN Push(ClearXCom(xcom, t), t, "return_value",
                               IF res.commit THEN "committed" ELSE "skipped")
                     ELSE ClearXCom(xcom, t)
    /\ UNCHANGED <<run, table, seq, csvExists, csv, appended, dvcInit, dvcMeta, marker,
                   gitRepo, clock>>

Init == /\ run = 0
        /\ runState = "none"
        /\ taskState = [t \in Tasks |-> "none"]
        /\ tries = [t \in Tasks |-> 0]
        /\ err = [t \in Tasks |-> ""]
        /\ xcom = <<>>
        /\ pulled = {}
        /\ table = {}
        /\ seq = 0
        /\ csvExists = FALSE
        /\ csv = <<>>
        /\ appended = <<>>
        /\ dvcInit = FALSE
        /\ dvcMeta = [exists |-> FALSE, hash |-> <<>>]
        /\ marker = [content |-> "", by |-> "", run |-> 0]
        /\ gitRepo \in BOOLEAN
        /\ head = [exists |-> FALSE, hash |-> <<>>]
        /\ commits = 0
        /\ shell = NoShell
        /\ clock = 0

Next ==
    \/ StartRun
    \/ step1_extract
    \/ step2_transform
    \/ step3_load
    \/ step4_dvc_version_prep
    \/ task_dvc_version
    \/ task_git_commit

Spec == Init /\ [][Next]_vars

\* The scheduler runs every queued task, and starts the runs.
FairSpec == Spec /\ WF_vars(Next)
-----------------------------------------------------------------------------
(* Properties *)

CsvDates == {csv[i].date : i \in 1..Len(csv)}

EXTRACT == "step1_extract"
TRANSFORM == "step2_transform"
LOAD == "step3_load"
PREP == "step4_dvc_version_prep"
DVC == "step4_dvc_version"
GIT == "step5_git_commit"

Upstream(t) == Chain[Position(t) - 1]

\* The row the Normalizer pushed in this run, and the record it was made from.
HasRow == <<TRANSFORM, "transformed_df">> \in DOMAIN xcom
Df == xcom[<<TRANSFORM, "transformed_df">>]
RawRecord == xcom[<<EXTRACT, "raw_apod_data">>]

\* The load stage of this run has written the table (and then maybe failed
\* on the file).
Upserted == taskState[LOAD] = "success" \/ err[LOAD] = "OSError"

\* C1: after any sequence of appends to the file, starting from no file, the
\* file holds exactly one row per distinct date appended so far, and the row
\* of each date carries the field values of the most recent append for it.
C1_OneRowPerDateLatestValues ==
    /\ csvExists <=> DOMAIN appended # {}
    /\ Len(csv) = Cardinality(DOMAIN appended)
    /\ CsvDates = DOMAIN appended
    /\ \A i \in 1..Len(csv) :
         \A f \in DOMAIN csv[i] : csv[i][f] = to_csv_cell(appended[csv[i].date][f])

\* C2: the table holds at most one row per date, and once the load stage has
\* upserted the run's row, the table's row of that date carries exactly the
\* run's values (extracted_at included), also when the date was present before.
C2_UpsertByDate ==
    /\ \A r1, r2 \in table : r1.row.date = r2.row.date => r1 = r2
    /\ Upserted =>
         \E r \in table : /\ r.row = RowOf(Df[1])
                          /\ \A q \in table : q.row.date = Df[1].date => q = r

\* a run whose date was in the table already has overwritten the row
C2_Witness ==
    /\ Upserted
    /\ \E r \in table : /\ r.row = RowOf(Df[1])
                        /\ r.row.extracted_at = isoformat(2)
                        /\ r.created_at = 1
                        /\ r.id = 1

\* C3, as claimed: a failure of fetch, normalize or load fails the run,
\* whereas a failure of the Snapshot Recorder or of the Change Recorder
\* leaves the run successful.
C3_RecorderFailuresTolerated ==
    /\ (\E t \in {EXTRACT, TRANSFORM, LOAD} : taskState[t] = "failed")
         => runState = "failed"
    /\ (/\ shell.task = DVC
        /\ shell.exit # 0
        /\ tries[DVC] = retries + 1) => runState = "success"
    /\ shell.task = GIT => runState = "success"

\* C3, amended: a failure of fetch, normalize, load, path preparation or of
\* the Snapshot Recorder fails the run (after the retry); only the Change
\* Recorder's failures (no repository, no metadata file, git add or git
\* commit failing) are logged and leave the run successful.
C3_OnlyChangeRecorderTolerated ==
    /\ runState = "failed" <=> \E t \in Tasks \ {GIT} : taskState[t] = "failed"
    /\ taskState[GIT] \notin {"failed", "up_for_retry"}
    /\ (/\ shell.task = DVC
        /\ shell.exit # 0
        /\ tries[DVC] = retries + 1) => runState = "failed"
    /\ shell.task = GIT => /\ runState = "success"
                           /\ table # {}
                           /\ csvExists

\* git add failed in the Change Recorder and the run succeeded
C3_Witness ==
    /\ shell.task = GIT
    /\ shell.add = "no"
    /\ runState = "success"

\* The Change Recorder's no-op cases, from what its script saw.
NoRepo(sh) == sh.repo = "no"
MetaNotLocated(sh) == sh.repo = "yes" /\ sh.found = "no"
AddFailed(sh) == sh.add = "no"
NothingCommitted(sh) == sh.add = "yes" /\ sh.commit = "no"

GitRan == tries'[GIT] = tries[GIT] + 1

\* C4: when the Change Recorder runs and there is no repository, or the
\* metadata file is found neither from the marker nor by recomputation, or
\* git add fails, or git commit has nothing to commit, it exits with code
\* zero, the task succeeds and no commit is made.
C4_BestEffortNoOp ==
    [][(GitRan /\ (\/ NoRepo(shell')
                   \/ MetaNotLocated(shell')
                   \/ AddFailed(shell')
                   \/ NothingCommitted(shell')))
         => /\ shell'.exit = 0
            /\ taskState'[GIT] = "success"
            /\ commits' = commits
            /\ head' = head]_vars

\* the marker could not be read, the path was recomputed, no file was there
C4_Witness ==
    /\ shell.task = GIT
    /\ shell.repo = "yes"
    /\ shell.marker = ""
    /\ shell.meta = abspath(CsvPath) \o ".dvc"
    /\ shell.found = "no"
    /\ shell.exit = 0
    /\ taskState[GIT] = "success"

\* C5: the Snapshot Recorder exits non-zero, and its task does not succeed,
\* whenever dvc add fails or the metadata file is missing after it; and the
\* marker is written only by a run of it that found the metadata file.
C5_SnapshotFailsLoudly ==
    /\ (shell.task = DVC /\ (shell.add = "no" \/ shell.found = "no"))
         => /\ shell.exit # 0
            /\ taskState[DVC] \in {"up_for_retry", "failed"}
            /\ marker.run # run
    /\ marker.content # "" => /\ dvcMeta.exists
                              /\ marker.by = DVC
                              /\ marker.content = abspath(CsvPath) \o ".dvc"
    /\ (marker.run = run /\ run > 0) => taskState[DVC] = "success"

\* dvc add reported success, the metadata file is not there
C5_Witness ==
    /\ shell.task = DVC
    /\ shell.add = "yes"
    /\ shell.found = "no"
    /\ shell.exit = 1
    /\ taskState[DVC] = "failed"

\* C6, as claimed: a task starts only after the task right before it
\* succeeded, and every value a task takes over was pushed, in the same run,
\* by the task right before it.
C6_PulledFromPredecessor ==
    /\ \A t \in Tasks \ {EXTRACT} : tries[t] > 0 => taskState[Upstream(t)] = "success"
    /\ \A p \in pulled : p.run = run /\ p.from = Upstream(p.by)

\* C6, amended: a task starts only after the task right before it succeeded,
\* and every value a task takes over was pushed, in the same run, by a task
\* before it that succeeded: by the task right before it, except that
\* step5_git_commit takes abs_csv_path from step4_dvc_version_prep, two tasks
\* back.
C6_PulledFromEarlierTask ==
    /\ \A t \in Tasks \ {EXTRACT} : tries[t] > 0 => taskState[Upstream(t)] = "success"
    /\ \A p \in pulled :
         /\ p.run = run
         /\ p.from \in Tasks
         /\ Position(p.from) < Position(p.by)
         /\ taskState[p.from] = "success"
         /\ p.key # "dvc_metadata_path" => <<p.from, p.key>> \in DOMAIN xcom
         /\ \/ p.from = Upstream(p.by)
            \/ p.by = GIT /\ p.key = "abs_csv_path" /\ p.from = PREP

\* the Change Recorder has read the marker the Snapshot Recorder wrote
C6_Witness ==
    \E p \in pulled : p.by = GIT /\ p.key = "dvc_metadata_path" /\ p.from = DVC

\* C7: when the record handed to the Normalizer is empty or absent, its task
\* fails with a ValueError and pushes no row; the Fetcher's failure of the
\* HTTP call is a RequestException, never a ValueError, and leaves no record.
C7_ErrorClasses ==
    /\ (/\ tries[TRANSFORM] > 0
        /\ \/ <<EXTRACT, "raw_apod_data">> \notin DOMAIN xcom
           \/ DOMAIN RawRecord = {})
         => /\ err[TRANSFORM] = "ValueError"
            /\ ~HasRow
            /\ taskState[TRANSFORM] \in {"up_for_retry", "failed"}
    /\ err[TRANSFORM] = "ValueError" => ~HasRow
    /\ err[EXTRACT] # "ValueError"
    /\ err[TRANSFORM] # "RequestException"
    /\ err[EXTRACT] = "RequestException"
         => /\ <<EXTRACT, "raw_apod_data">> \notin DOMAIN xcom
            /\ taskState[EXTRACT] \in {"up_for_retry", "failed"}

\* the API returned the empty object and the Normalizer's task failed
C7_Witness ==
    /\ <<EXTRACT, "raw_apod_data">> \in DOMAIN xcom
    /\ DOMAIN RawRecord = {}
    /\ err[TRANSFORM] = "ValueError"
    /\ taskState[TRANSFORM] = "failed"

\* C8, as claimed: a task that failed with a validation error (ValueError)
\* is not tried again.
C8_ValidationNotRetried ==
    \A t \in Tasks : err[t] = "ValueError" => (taskState[t] = "failed" /\ tries[t] = 1)

\* C8, amended: a task that fails, with whatever class of error, is tried
\* once more (retries = 1) and fails the run when the second try fails too;
\* and every run ends as success or failed.
C8_EveryFailureRetriedOnce ==
    /\ [](\A t \in Tasks :
            /\ tries[t] <= retries + 1
            /\ taskState[t] = "failed" => (tries[t] = retries + 1 /\ err[t] # "")
            /\ (err[t] # "" /\ tries[t] <= retries) => taskState[t] = "up_for_retry"
            /\ taskState[t] = "up_for_retry" => runState = "running")
    /\ ((runState = "running") ~> (runState \in {"success", "failed"}))

\* the validation error came back on the second try and the run failed
C8_Witness ==
    /\ err[TRANSFORM] = "ValueError"
    /\ tries[TRANSFORM] = retries + 1
    /\ taskState[TRANSFORM] = "failed"
    /\ runState = "failed"

\* C9: for a valid record the Normalizer produces exactly one row, whose
\* date, title, url, explanation and media_type are the record's, whose
\* hdurl, copyright and service_version are the empty string when the record
\* lacks them (and the record's otherwise), and whose extracted_at is set.
C9_Normalizer ==
    (HasRow /\ RawRecord \in ValidRecords) =>
        /\ Len(Df) = 1
        /\ \A f \in RequiredFields : Df[1][f] = RawRecord[f]
        /\ \A f \in OptionalFields :
             Df[1][f] = IF f \in DOMAIN RawRecord THEN RawRecord[f] ELSE ""
        /\ Df[1].extracted_at \notin {"", None, NaN}

\* a record without the optional fields was normalized
C9_Witness ==
    /\ HasRow
    /\ RawRecord \in ValidRecords
    /\ DOMAIN RawRecord = RequiredFields
    /\ Df[1].hdurl = ""

\* C10: every date with a row in the file has a row in the table; and once
\* the load stage has succeeded, the table and the file each hold a row of
\* the run's date, with the same field values.
C10_FileWithinTable ==
    /\ CsvDates \subseteq {r.row.date : r \in table}
    /\ taskState[LOAD] = "success" =>
         \E r \in table : \E i \in 1..Len(csv) :
            /\ r.row.date = Df[1].date
            /\ csv[i].date = Df[1].date
            /\ \A f \in DOMAIN csv[i] : csv[i][f] = to_csv_cell(r.row[f])

\* the table is ahead of the file: the file write failed after the upsert
C10_Witness ==
    /\ err[LOAD] = "OSError"
    /\ CsvDates # {r.row.date : r \in table}
    /\ CsvDates # {}
====
